---- MODULE Spec2Model ----
(***************************************************************************)
(* Model of src/cell.rs: decoding one B-tree cell of a SQLite database     *)
(* file (CellContent::get_cell_data and the four per-type parsers), the    *)
(* field accessors of CellContent and Payload::calculate_spillage.         *)
(*                                                                         *)
(* Values of the program:                                                  *)
(*   a byte buffer is a sequence of numbers 0..255;                        *)
(*   Option<T> is a sequence of length at most one (None == <<>>);         *)
(*   Result<T, E> is a record with tag "Ok" or "Err"; a call that unwinds  *)
(*   with a panic has tag "Panic";                                         *)
(*   a u32 is kept as its two 16-bit halves, because TLC's integers are    *)
(*   narrower than a u32.                                                  *)
(***************************************************************************)
EXTENDS Integers, Sequences, FiniteSets, TLC

\* ------------------------------------------------------------------ bounds
MaxFileLen     == 4      \* longest database file of Spec
MaxCellLen     == 10     \* longest cell of SpecCell
MaxContRun     == 2      \* longest run of varint continuation bytes in a file
MaxPayloadSize == 1100   \* largest Payload.size of SpecSpill

\* The byte values files are made of: a one-byte varint (2) and a continuation
\* byte (0x81), which give the payload sizes 2, 130, 258, ...
Bytes == {2, 129}

\* The cell of the end-to-end example: [0x03, 0x02, 0x41, 0x42, 0x43].
ExampleCell == <<3, 2, 65, 66, 67>>

PageType == {"LeafTable", "InteriorTable", "LeafIndex", "InteriorIndex"}

\* Database geometries (page_size, reserved_space) of a valid file header.
Geometries == {[page_size |-> 512, reserved_space |-> 0],
               [page_size |-> 512, reserved_space |-> 32],
               [page_size |-> 1024, reserved_space |-> 0]}

\* --------------------------------------------------------------- values
None == <<>>
Some(v) == <<v>>

Ok(v) == [tag |-> "Ok", value |-> v]
Err(cause) == [tag |-> "Err", cause |-> cause]
Panic == [tag |-> "Panic"]
NoResult == [tag |-> "None"]

Max(a, b) == IF a >= b THEN a ELSE b

\* Rust's buf[from..to] (0-based, end exclusive); used only when in range.
Slice(buf, from, to) == SubSeq(buf, from + 1, to)
\* Rust's buf[from..]
SliceFrom(buf, from) == SubSeq(buf, from + 1, Len(buf))

\* ----------------------------------------------------------- varint
\* decode_be of varint.rs: up to 9 bytes, most significant first; the high bit
\* of each of the first 8 bytes is a continuation flag and its low 7 bits are
\* value bits; a 9th byte contributes all 8 bits.  i is the 1-based index of
\* the next byte, acc the value so far.
RECURSIVE DecodeFrom(_, _, _)
DecodeFrom(buf, i, acc) ==
    IF i > Len(buf) THEN [value |-> acc, len |-> i - 1]
    ELSE IF i = 9 THEN [value |-> acc * 256 + buf[i], len |-> 9]
    ELSE IF buf[i] >= 128 THEN DecodeFrom(buf, i + 1, acc * 128 + (buf[i] % 128))
    ELSE [value |-> acc * 128 + buf[i], len |-> i]

decode_be(buf) ==
    IF Len(buf) = 0 THEN Err("varint") ELSE Ok(DecodeFrom(buf, 1, 0))

\* u32::from_be_bytes, as the two 16-bit halves of the result.
from_be_bytes(b) == [hi |-> b[1] * 256 + b[2], lo |-> b[3] * 256 + b[4]]

\* -------------------------------------------------------------- parsers
\* payload.size > cell.size: the test the parsers use to decide that the
\* cell ends with an overflow pointer.
MutSpillsAtEqual(size, cell) == size >= cell.size
spills(size, cell) == size > cell.size

\* cell_buf[cell_buf.len() - 4..]: the overflow pointer (needs len >= 4).
MutOverflowFirst4(cell_buf) == Slice(cell_buf, 0, 4)
overflow_ptr(cell_buf) == SliceFrom(cell_buf, Len(cell_buf) - 4)

\* The payload.payload = match payload.overflow {..} of the parsers (needs
\* position <= len - 4 when there is an overflow pointer).
MutLocalKeepsTail(cell_buf, position, overflow) == SliceFrom(cell_buf, position)
local_payload(cell_buf, position, overflow) ==
    IF overflow # None
    THEN Slice(cell_buf, position, Len(cell_buf) - 4)
    ELSE SliceFrom(cell_buf, position)

Payload(size, payload, overflow) ==
    [size |-> size, payload |-> payload, overflow |-> overflow]

parse_leaf_table_cell(cell, cell_buf) ==
    LET d1 == decode_be(cell_buf) IN
    IF d1.tag = "Err" THEN Err(d1.cause)
    ELSE
      LET size == d1.value.value
          position1 == d1.value.len
          sp == spills(size, cell)
      IN
      \* cell_buf.len() - 4 underflows (debug) or the slice start is out of range
      IF sp /\ Len(cell_buf) < 4 THEN Panic
      ELSE
        LET overflow == IF sp THEN Some(overflow_ptr(cell_buf)) ELSE None
            d2 == decode_be(SliceFrom(cell_buf, position1))
        IN
        IF d2.tag = "Err" THEN Err(d2.cause)
        ELSE
          LET position == position1 + d2.value.len IN
          \* cell_buf[position..len - 4] with position > len - 4
          IF overflow # None /\ position > Len(cell_buf) - 4 THEN Panic
          ELSE Ok([row_id |-> d2.value.value,
                   payload |-> Payload(size,
                                       local_payload(cell_buf, position, overflow),
                                       overflow)])

parse_interior_table_cell(cell_buf) ==
    \* cell_buf[..4] on a buffer shorter than 4 bytes
    IF Len(cell_buf) < 4 THEN Panic
    ELSE
      LET left_child_ptr == from_be_bytes(Slice(cell_buf, 0, 4))
          d == decode_be(SliceFrom(cell_buf, 4))
      IN
      IF d.tag = "Err" THEN Err(d.cause)
      ELSE Ok([left_child_ptr |-> left_child_ptr, integer_key |-> d.value.value])

parse_leaf_index_cell(cell, cell_buf) ==
    LET d == decode_be(cell_buf) IN
    IF d.tag = "Err" THEN Err(d.cause)
    ELSE
      LET size == d.value.value
          varint_len == d.value.len
          sp == spills(size, cell)
      IN
      IF sp /\ Len(cell_buf) < 4 THEN Panic
      ELSE
        LET overflow == IF sp THEN Some(overflow_ptr(cell_buf)) ELSE None IN
        IF overflow # None /\ varint_len > Len(cell_buf) - 4 THEN Panic
        ELSE Ok([payload |-> Payload(size,
                                     local_payload(cell_buf, varint_len, overflow),
                                     overflow)])

parse_interior_index_cell(cell, cell_buf) ==
    IF Len(cell_buf) < 4 THEN Panic
    ELSE
      LET left_child_ptr == from_be_bytes(Slice(cell_buf, 0, 4))
          d == decode_be(SliceFrom(cell_buf, 4))
      IN
      IF d.tag = "Err" THEN Err(d.cause)
      ELSE
        LET size == d.value.value
            varint_len == d.value.len
            sp == spills(size, cell)
            overflow == IF sp THEN Some(overflow_ptr(cell_buf)) ELSE None
        IN
        IF overflow # None /\ 4 + varint_len > Len(cell_buf) - 4 THEN Panic
        ELSE Ok([left_child_ptr |-> left_child_ptr,
                 payload |-> Payload(size,
                                     local_payload(cell_buf, 4 + varint_len, overflow),
                                     overflow)])

\* ------------------------------------------------------------ dispatcher
\* The match pg.page_type of get_cell_data: one parser per page type, the
\* variant and its label fixed by the page type.
MutDispatchByFirstByte(page_type, cell, cell_buf) ==
    LET r == parse_leaf_index_cell(cell, cell_buf) IN
    IF r.tag # "Ok" THEN r
    ELSE Ok([variant |-> IF cell_buf[1] >= 128 THEN "LeafIndex" ELSE page_type,
             cell_type |-> "B-Tree Leaf Index",
             payload |-> r.value.payload])
dispatch(page_type, cell, cell_buf) ==
    CASE page_type = "LeafTable" ->
           LET r == parse_leaf_table_cell(cell, cell_buf) IN
           IF r.tag = "Ok"
           THEN Ok([variant |-> "LeafTable", cell_type |-> "B-Tree Leaf Table",
                    row_id |-> r.value.row_id, payload |-> r.value.payload])
           ELSE r
      [] page_type = "InteriorTable" ->
           LET r == parse_interior_table_cell(cell_buf) IN
           IF r.tag = "Ok"
           THEN Ok([variant |-> "InteriorTable", cell_type |-> "B-Tree Interior Table",
                    left_child_ptr |-> r.value.left_child_ptr,
                    integer_key |-> r.value.integer_key])
           ELSE r
      [] page_type = "LeafIndex" ->
           LET r == parse_leaf_index_cell(cell, cell_buf) IN
           IF r.tag = "Ok"
           THEN Ok([variant |-> "LeafIndex", cell_type |-> "B-Tree Leaf Index",
                    payload |-> r.value.payload])
           ELSE r
      [] page_type = "InteriorIndex" ->
           LET r == parse_interior_index_cell(cell, cell_buf) IN
           IF r.tag = "Ok"
           THEN Ok([variant |-> "InteriorIndex", cell_type |-> "B-Tree Interior Index",
                    left_child_ptr |-> r.value.left_child_ptr,
                    payload |-> r.value.payload])
           ELSE r

\* ------------------------------------------------------------ accessors
\* InvalidFieldError::new: the pieces of the formatted message, in order (the
\* grave accents the format string puts around the two names are left out).
InvalidFieldError(cell_type, field_name) ==
    [details |-> <<"Type ", cell_type, " does not have a ", field_name, " field">>]

get_payload(self) ==
    IF self.variant \in {"LeafTable", "LeafIndex", "InteriorIndex"}
    THEN Ok(self.payload.payload)
    ELSE Err(InvalidFieldError(self.cell_type, "payload"))

get_left_child_pointer(self) ==
    IF self.variant \in {"InteriorTable", "InteriorIndex"}
    THEN Ok(self.left_child_ptr)
    ELSE Err(InvalidFieldError(self.cell_type, "left_child_ptr"))

MutRowIdOfAnyTable(self) ==
    IF self.variant = "LeafTable" THEN Ok(self.row_id)
    ELSE IF self.variant = "InteriorTable" THEN Ok(self.integer_key)
    ELSE Err(InvalidFieldError(self.cell_type, "row_id"))
get_row_id(self) ==
    IF self.variant = "LeafTable"
    THEN Ok(self.row_id)
    ELSE Err(InvalidFieldError(self.cell_type, "row_id"))

\* ------------------------------------------------------------- spillage
\* 2^64 mod n, for n < 2^15.
Pow64Mod(n) ==
    LET a == 65536 % n
        b == (a * a) % n
    IN (b * b) % n

\* How the build treats integer overflow: overflow checks on (the arithmetic
\* panics) or off (it wraps modulo 2^64).
Builds == {"checked", "wrapping"}

\* Payload::calculate_spillage.  A u64 is an integer here; a negative number n
\* stands for the wrapped value 2^64 + n.  For the geometries of a valid header
\* (u >= 480) only p - m can overflow.
calculate_spillage(self, database, page, build) ==
    LET p == self.size
        u == database.page_size - database.reserved_space
        m == ((u - 12) * 32) \div 255 - 23
    IN
    IF p < m /\ build = "checked" THEN Panic
    ELSE
      LET d == IF p >= m THEN (p - m) % (u - 4)
               ELSE (Pow64Mod(u - 4) + p - m) % (u - 4)
          k == m + d
          x == CASE page.page_type = "LeafTable" -> u - 35
                 [] page.page_type \in {"LeafIndex", "InteriorIndex"} ->
                      ((u - 12) * 64) \div 255 - 23
                 [] OTHER -> 0
      IN Ok(IF p > x /\ k <= x THEN p - k
            ELSE IF p > x /\ k > x THEN p - m
            ELSE 0)

\* ----------------------------------------------------------------- state
VARIABLES
    file,       \* db.file: the bytes of the database file
    cursor,     \* db.file: the position of the file handle
    cursor_before, \* where the handle was when the last call started
    db,         \* db.page_size and db.reserved_space
    pg,         \* the BtreePage of the last get_cell_data call
    cell,       \* the Cell locator of the last get_cell_data call
    cell_buf,   \* the bytes the last call read into cell_buf (<<>> if none)
    result,     \* what the last get_cell_data call returned
    acc,        \* the last accessor call on that result: its op and res
    spill_self, \* the Payload calculate_spillage is called on
    spill_page, \* the page it is called with
    spillage    \* what calculate_spillage returned

vars == <<file, cursor, cursor_before, db, pg, cell, cell_buf, result, acc,
          spill_self, spill_page, spillage>>

ContRunOK(f) ==
    \A i \in 1..(Len(f) - MaxContRun) : \E j \in i..(i + MaxContRun) : f[j] < 128

\* The files of at most n bytes.
Files(n) == {f \in UNION {[1..len -> Bytes] : len \in 0..n} : ContRunOK(f)}

PageStarts == {0, 1}
CellOffsets == {0, 1}

InitWith(files, geometries, sizes, page_types) ==
    /\ file \in files
    /\ cursor = 0
    /\ cursor_before = 0
    /\ db \in geometries
    /\ pg = [page_type |-> "LeafTable", file_starting_position |-> 0]
    /\ cell = [offset |-> 0, size |-> 0]
    /\ cell_buf = <<>>
    /\ result = NoResult
    /\ acc = NoResult
    /\ spill_self \in {Payload(p, <<>>, None) : p \in sizes}
    /\ spill_page \in {[page_type |-> pt, file_starting_position |-> 0] : pt \in page_types}
    /\ spillage = NoResult

\* reader.seek(SeekFrom::Start(pg.file_starting_position + cell.offset))
MutSeekFromCurrent(cur, page, c) == cur + page.file_starting_position + c.offset
seek_target(cur, page, c) == page.file_starting_position + c.offset

\* reader.read_exact(&mut cell_buf) of n bytes at pos: the bytes, or an
\* error at the end of the file; nothing is read for an empty buffer.
read_exact(f, pos, n) ==
    IF n = 0 \/ pos + n <= Len(f) THEN Ok(Slice(f, pos, pos + n)) ELSE Err("io")

\* CellContent::get_cell_data.  The buffered reader may read ahead of the
\* bytes asked for, so the handle is left anywhere from the end of the cell to
\* the end of the file; a short read leaves it at the end of the file.
GetCellData(page, c) ==
    LET pos == seek_target(cursor, page, c)
        rd == read_exact(file, pos, c.size)
    IN
    /\ pg' = page
    /\ cursor_before' = cursor
    /\ cell' = c
    /\ acc' = NoResult
    /\ IF rd.tag = "Err"
       THEN /\ cursor' = Max(pos, Len(file))
            /\ cell_buf' = <<>>
            /\ result' = Err(rd.cause)
       ELSE /\ cursor' \in IF c.size = 0 THEN {pos} ELSE (pos + c.size)..Len(file)
            /\ cell_buf' = rd.value
            /\ result' = dispatch(page.page_type, c, rd.value)
    /\ UNCHANGED <<file, db, spill_self, spill_page, spillage>>

GetPayload ==
    /\ result.tag = "Ok"
    /\ acc' = [tag |-> "Called", op |-> "get_payload", res |-> get_payload(result.value)]
    /\ UNCHANGED <<file, cursor, cursor_before, db, pg, cell, cell_buf, result,
                   spill_self, spill_page, spillage>>

GetLeftChildPointer ==
    /\ result.tag = "Ok"
    /\ acc' = [tag |-> "Called", op |-> "get_left_child_pointer",
               res |-> get_left_child_pointer(result.value)]
    /\ UNCHANGED <<file, cursor, cursor_before, db, pg, cell, cell_buf, result,
                   spill_self, spill_page, spillage>>

GetRowId ==
    /\ result.tag = "Ok"
    /\ acc' = [tag |-> "Called", op |-> "get_row_id", res |-> get_row_id(result.value)]
    /\ UNCHANGED <<file, cursor, cursor_before, db, pg, cell, cell_buf, result,
                   spill_self, spill_page, spillage>>

CalculateSpillage ==
    /\ spillage = NoResult
    /\ \E build \in Builds :
         spillage' = calculate_spillage(spill_self, db, spill_page, build)
    /\ UNCHANGED <<file, cursor, cursor_before, db, pg, cell, cell_buf, result, acc,
                   spill_self, spill_page>>

CellGeometry == {[page_size |-> 512, reserved_space |-> 0]}

\* Any sequence of get_cell_data calls, on any page and cell of a small
\* database.
Init == InitWith(Files(MaxFileLen), CellGeometry, {0}, {"LeafTable"})

Call ==
    \E pt \in PageType, st \in PageStarts, off \in CellOffsets, sz \in 0..MaxFileLen :
        GetCellData([page_type |-> pt, file_starting_position |-> st],
                    [offset |-> off, size |-> sz])

Next == Call

Spec == Init /\ [][Next]_vars

\* get_cell_data on a cell that is the whole file, for every page type, and
\* the accessors on what it returns.
InitCell == InitWith(Files(MaxCellLen) \cup {ExampleCell}, Geometries, {0}, {"LeafTable"})

CallCell ==
    \E pt \in PageType :
        GetCellData([page_type |-> pt, file_starting_position |-> 0],
                    [offset |-> 0, size |-> Len(file)])

NextCell == CallCell \/ GetPayload \/ GetLeftChildPointer \/ GetRowId

SpecCell == InitCell /\ [][NextCell]_vars

\* calculate_spillage on a Payload of any size, for every page type.
InitSpill == InitWith({<<>>}, Geometries, 0..MaxPayloadSize, PageType)

NextSpill == CalculateSpillage

SpecSpill == InitSpill /\ [][NextSpill]_vars

\* ======================================================================
\* The format's rules, as the file-format documentation states them
\* ======================================================================
PayloadBearing == {"LeafTable", "LeafIndex", "InteriorIndex"}

Usable(database) == database.page_size - database.reserved_space

FormatM(u) == ((u - 12) * 32) \div 255 - 23
FormatX(u, pt) == IF pt = "LeafTable" THEN u - 35 ELSE ((u - 12) * 64) \div 255 - 23
FormatK(p, u) == FormatM(u) + ((p - FormatM(u)) % (u - 4))

LocalBytes(p, u, pt) ==
    IF p <= FormatX(u, pt) THEN p
    ELSE IF FormatK(p, u) <= FormatX(u, pt) THEN FormatK(p, u)
    ELSE FormatM(u)

\* The number of bytes of the varint a non-empty buffer starts with.
VarintWidth(b) ==
    LET stops == {n \in 1..Len(b) : n = 9 \/ n = Len(b) \/ b[n] < 128}
    IN CHOOSE n \in stops : \A k \in stops : n <= k

\* The buffer holds the header fields of its layout.
HeaderPresent(pt, b) ==
    CASE pt = "LeafTable" -> Len(b) >= 1 /\ Len(b) > VarintWidth(b)
      [] pt = "LeafIndex" -> Len(b) >= 1
      [] OTHER -> Len(b) >= 5

\* The length of the header fields: the payload-size varint, plus the row-id
\* varint (leaf table) or the 4-byte left-child pointer (interior pages).
HeaderLen(pt, b) ==
    CASE pt = "LeafTable" -> VarintWidth(b) + VarintWidth(SliceFrom(b, VarintWidth(b)))
      [] pt = "LeafIndex" -> VarintWidth(b)
      [] OTHER -> 4 + VarintWidth(SliceFrom(b, 4))

\* The payload-size varint of a payload-bearing cell that holds one.
DeclaredSize(pt, b) ==
    IF pt = "InteriorIndex" THEN decode_be(SliceFrom(b, 4)).value.value
    ELSE decode_be(b).value.value

\* The minimal header width of each layout.
MinHeaderWidth(pt) ==
    CASE pt = "LeafTable" -> 2
      [] pt = "LeafIndex" -> 1
      [] OTHER -> 5

\* The last call read its cell from the file.
CellRead == /\ result.tag # "None"
            /\ result.tag = "Err" => result.cause # "io"

Decoded == result.tag = "Ok"
DecodedPayload == Decoded /\ result.value.variant \in PayloadBearing

\* ======================================================================
\* Claims
\* ======================================================================

\* C1: a successfully decoded payload-bearing cell has an overflow pointer if
\* and only if the spillage formula keeps fewer than p bytes in the cell
\* (local_bytes < p, that is p > x), p being the decoded payload size.
C1_OverflowIffFormulaSpills ==
    DecodedPayload =>
        LET p == result.value.payload.size IN
        (result.value.payload.overflow # None)
            <=> (LocalBytes(p, Usable(db), pg.page_type) < p)

\* C2: a cell whose declared size is smaller than the minimal header width of
\* its layout makes get_cell_data return an error value (no panic).
C2_ShortCellIsError ==
    (result.tag # "None" /\ cell.size < MinHeaderWidth(pg.page_type))
        => result.tag = "Err"

\* C3: calculate_spillage completes for every payload size, geometry and page
\* type, and on the payload-bearing page types p minus its result is the
\* local_bytes of the format's formula.
C3_SpillageIsFormula ==
    spillage.tag # "None" =>
        /\ spillage.tag = "Ok"
        /\ spill_page.page_type \in PayloadBearing =>
             spill_self.size - spillage.value
                 = LocalBytes(spill_self.size, Usable(db), spill_page.page_type)

\* C4: on each variant exactly the documented accessors succeed, a success
\* returns the field stored in the variant, and a failure is an
\* InvalidFieldError naming the variant's label and the requested field.
VariantLabel(variant) ==
    CASE variant = "LeafTable" -> "B-Tree Leaf Table"
      [] variant = "InteriorTable" -> "B-Tree Interior Table"
      [] variant = "LeafIndex" -> "B-Tree Leaf Index"
      [] variant = "InteriorIndex" -> "B-Tree Interior Index"

DocumentedVariants(op) ==
    CASE op = "get_payload" -> {"LeafTable", "LeafIndex", "InteriorIndex"}
      [] op = "get_left_child_pointer" -> {"InteriorTable", "InteriorIndex"}
      [] op = "get_row_id" -> {"LeafTable"}

FieldName(op) ==
    CASE op = "get_payload" -> "payload"
      [] op = "get_left_child_pointer" -> "left_child_ptr"
      [] op = "get_row_id" -> "row_id"

StoredField(op, content) ==
    CASE op = "get_payload" -> content.payload.payload
      [] op = "get_left_child_pointer" -> content.left_child_ptr
      [] op = "get_row_id" -> content.row_id

C4_VariantExclusivity ==
    acc.tag # "None" =>
        LET content == result.value IN
        /\ acc.res.tag \in {"Ok", "Err"}
        /\ acc.res.tag = "Ok" <=> content.variant \in DocumentedVariants(acc.op)
        /\ acc.res.tag = "Ok" => acc.res.value = StoredField(acc.op, content)
        /\ acc.res.tag = "Err" =>
             /\ acc.res.cause.details[2] = VariantLabel(content.variant)
             /\ acc.res.cause.details[4] = FieldName(acc.op)

C4_Witness ==
    /\ acc.tag # "None"
    /\ acc.op = "get_row_id"
    /\ result.value.variant = "InteriorTable"
    /\ acc.res.tag = "Err"

\* C5: when a decoded payload-bearing cell has an overflow pointer, the pointer
\* is the last 4 bytes of the raw cell and payload.payload is the raw bytes
\* from the end of the header fields up to those 4 bytes.
C5_OverflowExtraction ==
    (DecodedPayload /\ result.value.payload.overflow # None) =>
        LET n == Len(cell_buf)
            h == HeaderLen(pg.page_type, cell_buf)
        IN
        /\ n >= h + 4
        /\ result.value.payload.overflow = Some(SubSeq(cell_buf, n - 3, n))
        /\ result.value.payload.payload = SubSeq(cell_buf, h + 1, n - 4)

C5_Witness ==
    /\ DecodedPayload
    /\ result.value.variant = "InteriorIndex"
    /\ result.value.payload.overflow # None
    /\ SubSeq(cell_buf, 1, 4) # SubSeq(cell_buf, Len(cell_buf) - 3, Len(cell_buf))

\* C6: a leaf-table cell that holds its two varints and whose payload does not
\* overflow (the declared payload size fits the cell and the format's
\* threshold) decodes to size = first varint, row_id = second varint read where
\* the first ended, payload = all bytes after the two varints, overflow = None;
\* the cell [0x03, 0x02, 0x41, 0x42, 0x43] gives row_id 2, size 3,
\* payload [0x41, 0x42, 0x43], overflow None.
NoOverflowLeafTableCell ==
    /\ CellRead
    /\ pg.page_type = "LeafTable"
    /\ HeaderPresent("LeafTable", cell_buf)
    /\ DeclaredSize("LeafTable", cell_buf) <= cell.size
    /\ DeclaredSize("LeafTable", cell_buf) <= FormatX(Usable(db), "LeafTable")

DeclaresOverflow ==
    /\ CellRead
    /\ pg.page_type \in PayloadBearing
    /\ Len(cell_buf) >= (IF pg.page_type = "InteriorIndex" THEN 5 ELSE 1)
    /\ LET p == DeclaredSize(pg.page_type, cell_buf) IN
       /\ p > cell.size
       /\ LocalBytes(p, Usable(db), pg.page_type) < p

TooShortForOverflow ==
    \/ Len(cell_buf) < 4
    \/ ~HeaderPresent(pg.page_type, cell_buf)
    \/ HeaderLen(pg.page_type, cell_buf) > Len(cell_buf) - 4

C7_ShortOverflowCellIsError ==
    (DeclaresOverflow /\ TooShortForOverflow) => result.tag = "Err"

\* C8: whatever earlier calls did to the file handle, get_cell_data(page, cell)
\* reads exactly the file bytes [page start + cell.offset, + cell.size) and its
\* result is a function of the file, the page and the cell locator alone.
C8_IndependentOfCursor ==
    result.tag # "None" =>
        LET pos == pg.file_starting_position + cell.offset
            bytes == SubSeq(file, pos + 1, pos + cell.size)
        IN
        IF cell.size = 0 \/ pos + cell.size <= Len(file)
        THEN /\ cell_buf = bytes
             /\ result = dispatch(pg.page_type, cell, bytes)
        ELSE result = Err("io")

C8_Witness ==
    /\ result.tag = "Ok"
    /\ cursor_before > 0
    /\ cursor_before # pg.file_starting_position + cell.offset
    /\ pg.file_starting_position + cell.offset > 0

\* C9: the variant of a successfully decoded cell is the page's declared type,
\* whatever the bytes of the cell.
C9_VariantIsPageType ==
    Decoded => /\ result.value.variant = pg.page_type
               /\ result.value.cell_type = VariantLabel(pg.page_type)

C9_Witness ==
    /\ Decoded
    /\ pg.page_type = "LeafTable"
    /\ cell_buf[1] >= 128
    /\ Len(cell_buf) >= 5

\* C10: a successfully decoded payload-bearing cell is partitioned without gap
\* or overlap: header length + length of payload.payload + 4 if there is an
\* overflow pointer = cell.size, and payload.payload is the contiguous slice of
\* the raw cell that follows the header.
C10_CellPartition ==
    DecodedPayload =>
        LET h == HeaderLen(pg.page_type, cell_buf)
            local == result.value.payload.payload
            tail == IF result.value.payload.overflow # None THEN 4 ELSE 0
        IN
        /\ h + Len(local) + tail = cell.size
        /\ local = SubSeq(cell_buf, h + 1, h + Len(local))

C10_Witness ==
    /\ DecodedPayload
    /\ result.value.variant = "LeafTable"
    /\ result.value.payload.overflow # None
    /\ Len(result.value.payload.payload) > 0

====
